---- MODULE Spec2Model ----
(***************************************************************************)
(* A model of the Lumino compute-provider node (src/src/node_client.py):   *)
(* the main loop LuminoNode.run with its six phase handlers, and the       *)
(* CONFIRM handler process_assigned_jobs.                                  *)
(*                                                                         *)
(* The ledger is the environment.  Its clock `now` counts phases:          *)
(* epoch = now \div 6 and phase = now % 6, so a value of `now` names one   *)
(* phase of one epoch.  The clock only moves forward (Tick).  Any blocking *)
(* delay of the node (an RPC, a job, a sleep) is a number of Tick steps    *)
(* between two loop iterations.                                            *)
(*                                                                         *)
(* One iteration of the `while True` body of run() is one action.  A       *)
(* handler is attributed to the (epoch, phase) that get_epoch_state        *)
(* returned in the iteration that dispatched it.                           *)
(***************************************************************************)
EXTENDS Integers, Sequences, FiniteSets, TLC

VARIABLES
    now,               \* ledger clock: epoch * 6 + phase
    pc,                \* "main": before register_node; "run": in the loop; "exited": break;
                       \* "raised": run() ended by an exception ("raised_other": by
                       \* another exception than the one of the failed handler); "reg_raised": register_node raised
    test_mode,         \* self.test_mode: a string as a sequence of digits; << >> is None
    pipeline_zen_dir,  \* TRUE iff self.pipeline_zen_dir is set (real execution)
    node_id,           \* self.node_id
    current_secret,    \* self.current_secret (NoSecret is None)
    current_commitment,\* self.current_commitment (NoSecret is None)
    is_leader,         \* self.is_leader
    last_phase,        \* run(): last_phase, as a phase number (NoPhase is None)
    can_begin,         \* run(): can_begin
    epochs_processed,  \* run(): epochs_processed
    calls,             \* the ledger calls of the iteration that just ended, in order
    handler,           \* the phase whose handler that iteration dispatched, or NoPhase
    dtime,             \* ledger time observed by the latest dispatching iteration, or -1
    dcount,            \* number of dispatches made at ledger time dtime
    secret_epoch,      \* epoch whose COMMIT handler drew current_secret, or -1
    first_dispute,     \* ledger time of the first poll that observed DISPUTE, or -1
    jobs,              \* the job list get_jobs_by_node returns to that iteration's handler
    node_file,         \* node_data.json: the node_id it holds (NoId: no file, or no id in it)
    file_writes,       \* number of times _save_node_data has written node_data.json
    compute_rating,    \* COMPUTE_RATING, the argument of register_node
    pipeline_env,      \* the environment's PIPELINE_ZEN_DIR: "unset", "" or "dir"
    account,           \* the ledger's record of this node: its stake, its stake when
                       \* the node was first started, the register_node calls accepted,
                       \* and those made after one was accepted
    restarts,          \* the number of times the process was started again
    tracing,           \* TRUE iff the behaviour keeps the log below
    log,               \* the ledger calls of run() so far, in order (kept when tracing)
    commit_epoch,      \* epoch of the latest submit_commitment the ledger accepted (-1: none)
    process,           \* the runner subprocess: "none", "running" or "exited"
    returncode,        \* its exit code once exited (NoRet before)
    token_count_file,  \* .token-count in the result directory: "absent", "malformed", "int"
    finish_file,       \* TRUE iff .finished exists in the result directory
    success,           \* what _execute_job returned: "none" (not yet), "true", "false"
    runner,            \* what the runner has done so far, in order
    num_gpus           \* the --num_gpus of the runner's command line (NoGpus: none built)

\* The variables of registration, of the call log and of one job execution.
mainvars == <<node_file, file_writes, compute_rating, pipeline_env, account, restarts>>
logvars == <<tracing, log, commit_epoch>>
execvars == <<process, returncode, token_count_file, finish_file, success, runner,
              num_gpus>>

vars == <<now, pc, test_mode, pipeline_zen_dir, node_id, current_secret,
          current_commitment, is_leader, last_phase, can_begin, epochs_processed,
          calls, handler, dtime, dcount, secret_epoch, first_dispute, jobs,
          mainvars, logvars, execvars>>

---------------------------------------------------------------------------
(* Bounds of the model *)

MaxTime == 17
NumSecrets == 2
MaxJobs == 2
MaxJobsRun == 1

(* Program constants *)

COMMIT == 0
REVEAL == 1
ELECT == 2
EXECUTE == 3
CONFIRM == 4
DISPUTE == 5
NumPhases == 6
ASSIGNED == 1
SimTokenCount == 600000
EpochCountIndex == 5

NoPhase == -1
NoSecret == 0
NoRet == -1
NoId == 0
NoGpus == 0

\* int(os.getenv('COMPUTE_RATING', '10'))
DefaultRating == 10

Phase(t) == t % NumPhases
Epoch(t) == t \div NumPhases

Secrets == 1..NumSecrets

\* Web3.solidity_keccak(['bytes32'], [secret]): an injective map on Secrets
\* whose values are no secrets.
Keccak(s) == 1000 + ((31 * s + 7) % 257)

\* The node ids the ledger can name as leader: none (0), this node, another node.
ThisNode == 1
LeaderIds == {0, ThisNode, 2}

\* A token count a runner writes to .token-count.
RunnerTokenCount == 1234567

\* test_mode values: None, and 7-character digit strings.
TestModes ==
    { << >>,
      <<1,1,1,1,1,1,1>>,
      <<1,1,1,0,1,1,1>>,
      <<1,1,1,1,0,1,1>>,
      <<1,1,1,1,1,1,2>>,
      <<1,1,1,1,1,0,1>> }

\* Python's test_mode[i] followed by int(): the digit at 0-based index i.
CharAt(s, i) == s[i + 1]

\* One ledger call: the operation, its arguments, whether it returned (ok)
\* or raised, and the value it returned (NoRet when it returns nothing).
Call(op, args, ok, ret) ==
    [op |-> op, args |-> args, ok |-> ok, ret |-> ret, reason |-> ""]

\* fail_job(job_id, reason)
FailCall(job_id, reason, ok) ==
    [op |-> "fail_job", args |-> <<job_id>>, ok |-> ok, ret |-> NoRet, reason |-> reason]

\* What a handler did: its ledger calls, whether it raised, and the node
\* fields it may assign.
Result(cs, raised, secret, commitment, leader, epochs) ==
    [calls |-> cs, raised |-> raised, secret |-> secret, commitment |-> commitment,
     leader |-> leader, epochs |-> epochs]

---------------------------------------------------------------------------
(* The phase handlers.  Each reads the node's fields and takes the outcome
   of its ledger calls (ok: the call returned; otherwise it raised). *)

Unchanged(cs, raised) ==
    Result(cs, raised, current_secret, current_commitment, is_leader, epochs_processed)

\* A COMMIT handler that keeps a secret it already holds.
submit_commitment_keep(s, ok) ==
    Result(<<Call("submit_commitment", <<node_id, Keccak(s)>>, ok, NoRet)>>, ~ok,
           IF current_secret # NoSecret THEN current_secret ELSE s, Keccak(s),
           is_leader, epochs_processed)

\* LuminoNode.submit_commitment; s is what random.randbytes(32) returned.
\* Both fields are assigned before the RPC, so they are set when it raises.
submit_commitment(s, ok) ==
    Result(<<Call("submit_commitment", <<node_id, Keccak(s)>>, ok, NoRet)>>, ~ok,
           s, Keccak(s), is_leader, epochs_processed)

\* A reveal_secret that drops the secret, and only the secret, once the
\* RPC was made.
reveal_secret_clearing(ok) ==
    IF current_secret = NoSecret
    THEN Unchanged(<< >>, FALSE)
    ELSE Result(<<Call("reveal_secret", <<node_id, current_secret>>, ok, NoRet)>>, ~ok,
                NoSecret, current_commitment, is_leader, epochs_processed)

\* LuminoNode.reveal_secret
reveal_secret(ok) ==
    IF current_secret = NoSecret
    THEN Unchanged(<< >>, FALSE)
    ELSE Unchanged(<<Call("reveal_secret", <<node_id, current_secret>>, ok, NoRet)>>, ~ok)

\* The REVEAL branch without its guard: the RPC is made whatever is held.
reveal_branch_unguarded(ok) ==
    Unchanged(<<Call("reveal_secret", <<node_id, current_secret>>, ok, NoRet)>>, ~ok)

\* run(): the REVEAL branch
reveal_branch(ok) ==
    IF current_secret # NoSecret
    THEN reveal_secret(ok)
    ELSE Unchanged(<< >>, FALSE)

\* LuminoNode.elect_leader
elect_leader(ok) ==
    Unchanged(<<Call("elect_leader", << >>, ok, NoRet)>>, ~ok)

\* Leader duties with the comparison against node_id replaced by "some
\* leader is elected".
check_and_perform_leader_duties_any(lead_ok, leader, start_ok) ==
    IF ~lead_ok
    THEN Unchanged(<<Call("get_current_leader", << >>, FALSE, NoRet)>>, TRUE)
    ELSE LET got == Call("get_current_leader", << >>, TRUE, leader)
         IN  IF leader # 0
             THEN Result(<<got, Call("start_assignment_round", << >>, start_ok, NoRet)>>,
                         ~start_ok, current_secret, current_commitment, TRUE,
                         epochs_processed)
             ELSE Result(<<got>>, FALSE, current_secret, current_commitment, FALSE,
                         epochs_processed)

\* LuminoNode.check_and_perform_leader_duties; leader is what
\* get_current_leader returned when lead_ok.
check_and_perform_leader_duties(lead_ok, leader, start_ok) ==
    IF ~lead_ok
    THEN Unchanged(<<Call("get_current_leader", << >>, FALSE, NoRet)>>, TRUE)
    ELSE LET got == Call("get_current_leader", << >>, TRUE, leader)
             lead == (leader = node_id)
         IN  IF lead
             THEN Result(<<got, Call("start_assignment_round", << >>, start_ok, NoRet)>>,
                         ~start_ok, current_secret, current_commitment, TRUE,
                         epochs_processed)
             ELSE Result(<<got>>, FALSE, current_secret, current_commitment, FALSE,
                         epochs_processed)

\* LuminoNode.process_incentives and the DISPUTE branch of run():
\* epochs_processed += 1 is reached only when process_incentives returned.
dispute_branch(ok) ==
    Result(<<Call("process_incentives", << >>, ok, NoRet)>>, ~ok,
           current_secret, current_commitment, is_leader,
           IF ok THEN epochs_processed + 1 ELSE epochs_processed)

---------------------------------------------------------------------------
(* The CONFIRM handler: process_assigned_jobs. *)

\* What the runner and the ledger do during one _execute_job:
\*   args_ok      the parsed args hold the keys _execute_job reads
\*   spawn_ok     chdir, mkdir and Popen succeed
\*   token        .token-count as the poll loop first sees it while the
\*                process lives: "absent", "malformed" or "int"
\*   token_rpc_ok set_token_count_for_job returns
\*   finished     .finished exists after the process has exited
\* (A field that cannot be read on a path is fixed to one value there.)
ExecEnvs ==
    { x \in [args_ok : BOOLEAN, spawn_ok : BOOLEAN,
             token : {"absent", "malformed", "int"},
             token_rpc_ok : BOOLEAN, finished : BOOLEAN] :
        /\ (~x.args_ok => x.spawn_ok /\ x.token = "absent" /\ x.token_rpc_ok /\ x.finished)
        /\ (~x.spawn_ok => x.token = "absent" /\ x.token_rpc_ok /\ x.finished)
        /\ (x.token # "int" => x.token_rpc_ok)
        /\ (~x.token_rpc_ok => x.finished) }

\* LuminoNode._execute_job: its ledger calls and its return value.  Every
\* exception is caught by its `except Exception` and turned into False.
execute_job(job, x) ==
    IF job.args = "not_json" \/ ~x.args_ok \/ ~x.spawn_ok
    THEN [calls |-> << >>, success |-> FALSE, raised |-> FALSE]
    ELSE IF x.token = "int" /\ ~x.token_rpc_ok
    THEN [calls |-> <<Call("set_token_count_for_job", <<job.id, RunnerTokenCount>>,
                           FALSE, NoRet)>>,
          success |-> FALSE, raised |-> FALSE]
    ELSE [calls |-> IF x.token = "int"
                    THEN <<Call("set_token_count_for_job", <<job.id, RunnerTokenCount>>,
                                TRUE, NoRet)>>
                    ELSE << >>,
          success |-> x.finished, raised |-> FALSE]

\* A simulated execution that reports no token count.
simulate_job_silent(job, token_ok) ==
    [calls |-> << >>, success |-> TRUE, raised |-> FALSE]

\* The simulated execution of process_assigned_jobs (no pipeline root):
\* sleep, success = True, then set_token_count_for_job(job_id, 600000).
simulate_job(job, token_ok) ==
    [calls |-> <<Call("set_token_count_for_job", <<job.id, SimTokenCount>>, token_ok, NoRet)>>,
     success |-> TRUE, raised |-> ~token_ok]

\* The outcomes of the ledger calls made for one job.  The body of the
\* per-job try runs its calls in order and leaves at the first that raises,
\* so its outcome is the call that raises (fail_at, "none" when none does);
\* handler_ok is whether the fail_job of the except clause returns.
FailPoints ==
    {"none", "confirm_job", "set_token_count_for_job", "complete_job",
     "process_job_payment", "fail_job"}
JobOutcomes == [fail_at : FailPoints, handler_ok : BOOLEAN, exec : ExecEnvs]

Raises(o, op) == o.fail_at = op

\* The marker of a job's execution in the call log (not a ledger call).
Executed(job) == Call("execute", <<job.id>>, TRUE, NoRet)

\* A per-job try that goes on to the execution when confirm_job raised.
job_try_unconfirmed(real, job, o) ==
    LET confirm == Call("confirm_job", <<job.id>>, ~Raises(o, "confirm_job"), NoRet)
        ex == IF real
              THEN execute_job(job, o.exec)
              ELSE simulate_job(job, ~Raises(o, "set_token_count_for_job"))
        started == <<confirm, Executed(job)>> \o ex.calls
        complete == Call("complete_job", <<job.id>>, ~Raises(o, "complete_job"), NoRet)
        pay == Call("process_job_payment", <<job.id>>, ~Raises(o, "process_job_payment"), NoRet)
        fail == FailCall(job.id, "Job execution failed", ~Raises(o, "fail_job"))
    IN  IF ex.raised THEN [calls |-> started, raised |-> TRUE]
        ELSE IF ex.success
        THEN IF ~complete.ok
             THEN [calls |-> Append(started, complete), raised |-> TRUE]
             ELSE [calls |-> started \o <<complete, pay>>, raised |-> ~pay.ok]
        ELSE [calls |-> Append(started, fail), raised |-> ~fail.ok]

\* process_assigned_jobs: the body of the per-job try, for an ASSIGNED job;
\* real is `if self.pipeline_zen_dir`.
job_try(real, job, o) ==
    LET confirm == Call("confirm_job", <<job.id>>, ~Raises(o, "confirm_job"), NoRet)
        ex == IF real
              THEN execute_job(job, o.exec)
              ELSE simulate_job(job, ~Raises(o, "set_token_count_for_job"))
        started == <<confirm, Executed(job)>> \o ex.calls
        complete == Call("complete_job", <<job.id>>, ~Raises(o, "complete_job"), NoRet)
        pay == Call("process_job_payment", <<job.id>>, ~Raises(o, "process_job_payment"), NoRet)
        fail == FailCall(job.id, "Job execution failed", ~Raises(o, "fail_job"))
    IN  IF ~confirm.ok THEN [calls |-> <<confirm>>, raised |-> TRUE]
        ELSE IF ex.raised THEN [calls |-> started, raised |-> TRUE]
        ELSE IF ex.success
        THEN IF ~complete.ok
             THEN [calls |-> Append(started, complete), raised |-> TRUE]
             ELSE [calls |-> started \o <<complete, pay>>, raised |-> ~pay.ok]
        ELSE [calls |-> Append(started, fail), raised |-> ~fail.ok]

\* process_assigned_jobs: the per-job try with its except clause, for an
\* ASSIGNED job.  escaped: an exception left the except clause (its fail_job
\* raised).
process_try(real, job, o) ==
    LET body == job_try(real, job, o)
    IN  IF ~body.raised
        THEN [calls |-> body.calls, escaped |-> FALSE]
        ELSE [calls |-> Append(body.calls,
                               FailCall(job.id, "Processing error", o.handler_ok)),
              escaped |-> ~o.handler_ok]

\* The loop body without its `if status == 1`.
process_job_any_status(real, job, o) == process_try(real, job, o)

\* process_assigned_jobs: one pass of the loop body.
process_job(real, job, o) ==
    IF job.status # ASSIGNED
    THEN [calls |-> << >>, escaped |-> FALSE]
    ELSE process_try(real, job, o)

\* job["status"]: NEW, ASSIGNED, CONFIRMED, COMPLETE, FAILED.
Statuses == 0..4

\* job["args"]: a string that json.loads parses, or one it rejects.
ArgsKinds == {"json", "not_json"}

\* The jobs get_jobs_by_node can return: ids 1..MaxJobs, any status, any args.
Jobs == [id : 1..MaxJobs, status : Statuses, args : ArgsKinds]

\* Every pass of the loop body over every job, under every outcome of its
\* calls (a table: the passes do not depend on the node's state).
JobPasses ==
    { [real |-> real, job |-> job, pass |-> process_job(real, job, o)] :
        real \in BOOLEAN, job \in Jobs, o \in JobOutcomes }

passes_of(real, job) ==
    { t.pass : t \in { u \in JobPasses : u.real = real /\ u.job = job } }

\* process_assigned_jobs: the loop over js from index i on, as the set of its
\* possible runs.  An exception that escapes a pass ends the loop.
RECURSIVE job_loop(_, _, _)
job_loop(real, js, i) ==
    IF i > Len(js)
    THEN { [calls |-> << >>, escaped |-> FALSE] }
    ELSE UNION { IF one.escaped
                 THEN {one}
                 ELSE { [calls |-> one.calls \o rest.calls, escaped |-> rest.escaped] :
                          rest \in job_loop(real, js, i + 1) } :
                 one \in passes_of(real, js[i]) }

\* LuminoNode.process_assigned_jobs; when jobs_ok, get_jobs_by_node returned
\* the list whose loop ran as `loop`.  An escaped exception is re-raised.
process_assigned_jobs(jobs_ok, loop) ==
    IF ~jobs_ok
    THEN Unchanged(<<Call("get_jobs_by_node", <<node_id>>, FALSE, NoRet)>>, TRUE)
    ELSE Unchanged(<<Call("get_jobs_by_node", <<node_id>>, TRUE, NoRet)>> \o loop.calls,
                   loop.escaped)

\* Job lists of at most n jobs: the job at index i has id i.
JobLists(n) ==
    UNION { { [i \in 1..k |-> [id |-> i, status |-> st[i], args |-> ar[i]]] :
                st \in [1..k -> Statuses], ar \in [1..k -> ArgsKinds] } : k \in 0..n }

---------------------------------------------------------------------------
(* LuminoNode.run: the main loop. *)

\* `if self.test_mode`: None and "" are false.
TestModeOn == test_mode # << >>

\* Dispatch on every poll instead of on a transition only.
state_changed_always == TRUE

\* run(): state_changed = last_phase != current_phase, for the phase the
\* ledger is in when get_epoch_state answers.
state_changed == last_phase # Phase(now)

\* The state machine without the can_begin gate.
dispatching_ungated == last_phase # Phase(now)

\* A state machine that runs on every poll once the node can begin.
dispatching_every_poll == can_begin

\* The gate opened by the DISPUTE phase being observed, not by the end of
\* the iteration that observed it.
dispatching_first_dispute == state_changed /\ (can_begin \/ Phase(now) = DISPUTE)

\* run(): the guard of the phase state machine.
dispatching == can_begin /\ state_changed

\* run(): the test-mode exit check, with ep the value of epochs_processed.
exit_now(ep) ==
    /\ TestModeOn
    /\ CharAt(test_mode, EpochCountIndex) # 0
    /\ ep >= CharAt(test_mode, EpochCountIndex)

\* An except clause that re-raises whatever the mode.
phase_error_reraise(events_ok) == IF events_ok THEN "raised" ELSE "raised_other"

\* run(): `except Exception as phase_error`.  In test mode the clause sleeps,
\* calls process_events() and then re-raises: when process_events returns
\* (events_ok), run() ends with the handler's exception ("raised"); when it
\* raises, its exception takes the place of the handler's ("raised_other");
\* the top-level except clause re-raises either.  Outside test mode:
\* `continue`.
phase_error(events_ok) ==
    IF TestModeOn
    THEN IF events_ok THEN "raised" ELSE "raised_other"
    ELSE "run"

\* run(): the whole loop body after get_epoch_state returned `state`; r is
\* what the dispatched handler did (dispatched = FALSE: no handler ran).
\* A handler's exception goes to phase_error: `continue` skips the exit
\* check and the can_begin update.  On exit the
\* final process_events either drains (break) or raises (test mode: re-raised).
finish_iteration(state, dispatched, r) ==
    /\ last_phase' = state
    /\ calls' = r.calls
    /\ handler' = IF dispatched THEN state ELSE NoPhase
    /\ current_secret' = r.secret
    /\ current_commitment' = r.commitment
    /\ is_leader' = r.leader
    /\ epochs_processed' = r.epochs
    /\ dtime' = IF dispatched THEN now ELSE dtime
    /\ dcount' = IF dispatched THEN (IF dtime = now THEN dcount + 1 ELSE 1) ELSE dcount
    /\ secret_epoch' = IF dispatched /\ state = COMMIT THEN Epoch(now) ELSE secret_epoch
    /\ first_dispute' = IF first_dispute = -1 /\ state = DISPUTE THEN now ELSE first_dispute
    /\ IF r.raised
       THEN /\ \E events_ok \in BOOLEAN : pc' = phase_error(events_ok)
            /\ can_begin' = can_begin
       ELSE IF exit_now(r.epochs)
       THEN /\ \E drained \in BOOLEAN : pc' = IF drained THEN "exited" ELSE "raised"
            /\ can_begin' = can_begin
       ELSE /\ pc' = "run"
            /\ can_begin' = (can_begin \/ state = DISPUTE)
    /\ log' = IF tracing THEN log \o r.calls ELSE log
    /\ commit_epoch' = IF dispatched /\ state = COMMIT /\ ~r.raised
                       THEN Epoch(now)
                       ELSE commit_epoch
    /\ UNCHANGED <<now, test_mode, pipeline_zen_dir, node_id, mainvars, tracing, execvars>>

\* The ledger moves to its next phase.  (The record of the latest iteration,
\* calls, handler and jobs, is dropped: it is read right after the iteration.)
Tick ==
    /\ pc = "run"
    /\ now < MaxTime
    /\ now' = now + 1
    /\ calls' = << >>
    /\ handler' = NoPhase
    /\ jobs' = << >>
    /\ UNCHANGED <<pc, test_mode, pipeline_zen_dir, node_id, current_secret,
                   current_commitment, is_leader, last_phase, can_begin,
                   epochs_processed, dtime, dcount, secret_epoch, first_dispute,
                   mainvars, logvars, execvars>>

\* An iteration in which process_events, a status read or get_epoch_state
\* raises: the top-level except clause.  Its log line reads `state`, which is
\* unbound until a get_epoch_state has returned, so before that the clause
\* itself raises; after that it re-raises in test mode and sleeps otherwise.
PollFail ==
    /\ pc = "run"
    /\ pc' = IF last_phase = NoPhase \/ TestModeOn THEN "raised" ELSE "run"
    /\ calls' = << >>
    /\ handler' = NoPhase
    /\ jobs' = << >>
    /\ UNCHANGED <<now, test_mode, pipeline_zen_dir, node_id, current_secret,
                   current_commitment, is_leader, last_phase, can_begin,
                   epochs_processed, dtime, dcount, secret_epoch, first_dispute,
                   mainvars, logvars, execvars>>

\* An iteration that dispatches no handler.
PollIdle ==
    /\ pc = "run"
    /\ ~dispatching
    /\ finish_iteration(Phase(now), FALSE, Unchanged(<< >>, FALSE))
    /\ jobs' = << >>

PollCommit ==
    /\ pc = "run"
    /\ dispatching
    /\ Phase(now) = COMMIT
    /\ \E s \in Secrets, ok \in BOOLEAN :
          finish_iteration(COMMIT, TRUE, submit_commitment(s, ok))
    /\ jobs' = << >>

PollReveal ==
    /\ pc = "run"
    /\ dispatching
    /\ Phase(now) = REVEAL
    /\ \E ok \in BOOLEAN : finish_iteration(REVEAL, TRUE, reveal_branch(ok))
    /\ jobs' = << >>

PollElect ==
    /\ pc = "run"
    /\ dispatching
    /\ Phase(now) = ELECT
    /\ \E ok \in BOOLEAN : finish_iteration(ELECT, TRUE, elect_leader(ok))
    /\ jobs' = << >>

PollExecute ==
    /\ pc = "run"
    /\ dispatching
    /\ Phase(now) = EXECUTE
    /\ \E lead_ok \in BOOLEAN, leader \in LeaderIds, start_ok \in BOOLEAN :
          finish_iteration(EXECUTE, TRUE,
                           check_and_perform_leader_duties(lead_ok, leader, start_ok))
    /\ jobs' = << >>

PollConfirm ==
    /\ pc = "run"
    /\ dispatching
    /\ Phase(now) = CONFIRM
    /\ \E jobs_ok \in BOOLEAN, js \in JobLists(MaxJobsRun) :
          \E loop \in job_loop(pipeline_zen_dir, js, 1) :
             /\ finish_iteration(CONFIRM, TRUE, process_assigned_jobs(jobs_ok, loop))
             /\ jobs' = IF jobs_ok THEN js ELSE << >>

PollDispute ==
    /\ pc = "run"
    /\ dispatching
    /\ Phase(now) = DISPUTE
    /\ \E ok \in BOOLEAN : finish_iteration(DISPUTE, TRUE, dispute_branch(ok))
    /\ jobs' = << >>

\* A behaviour that keeps no call log.
LogOff ==
    /\ tracing = FALSE
    /\ log = << >>

\* No runner subprocess has been started and its result directory is empty.
NoExecution ==
    /\ process = "none"
    /\ returncode = NoRet
    /\ token_count_file = "absent"
    /\ finish_file = FALSE
    /\ success = "none"
    /\ runner = << >>
    /\ num_gpus = NoGpus

\* The ledger's record of a node with the given stake and no registration.
Account(stake) == [stake |-> stake, initial |-> stake, accepted |-> 0, repeated |-> 0]

\* A behaviour in which the ledger's answers are free and its record of the
\* node is not kept, and the process is started once.
LedgerOff ==
    /\ account = Account(0)
    /\ restarts = 0

\* The environment of a node that is built from a NodeConfig, without a read
\* of PIPELINE_ZEN_DIR.
NoEnv == "unset"

\* The node after __init__ (node_data.json holds its id), started at any
\* phase of the ledger's epoch 0.
Init ==
    /\ now \in 0..(NumPhases - 1)
    /\ pc = "run"
    /\ test_mode \in TestModes
    /\ pipeline_zen_dir \in BOOLEAN
    /\ node_id = ThisNode
    /\ current_secret = NoSecret
    /\ current_commitment = NoSecret
    /\ is_leader = FALSE
    /\ last_phase = NoPhase
    /\ can_begin = FALSE
    /\ epochs_processed = 0
    /\ calls = << >>
    /\ handler = NoPhase
    /\ dtime = -1
    /\ dcount = 0
    /\ secret_epoch = -1
    /\ commit_epoch = -1
    /\ first_dispute = -1
    /\ jobs = << >>
    /\ node_file = ThisNode
    /\ file_writes = 0
    /\ compute_rating = DefaultRating
    /\ pipeline_env = NoEnv
    /\ LedgerOff
    /\ LogOff
    /\ NoExecution

Next ==
    \/ Tick
    \/ PollFail
    \/ PollIdle
    \/ PollCommit
    \/ PollReveal
    \/ PollElect
    \/ PollExecute
    \/ PollConfirm
    \/ PollDispute

Spec == Init /\ [][Next]_vars

---------------------------------------------------------------------------
(* __main__: initialize_lumino_node(), node.register_node(compute_rating),
   node.run(). *)

\* Web3.to_wei(compute_rating, 'ether') is compute_rating * 10^18 base units.
\* Amounts are counted here in units of 10^16 base units: one ether is 100.
EtherUnits == 100
to_wei(r) == r * EtherUnits

\* The compute ratings a node is started with.
Ratings == {1, DefaultRating}

\* What get_stake_balance can return: nothing staked, less than, exactly and
\* more than the stake a rating requires.
Stakes == {0, 40, to_wei(1), to_wei(DefaultRating), to_wei(DefaultRating) + 200}

\* self.sdk.node_escrow.address
NodeEscrow == 77

\* The node ids the ledger can assign.
NodeIds == {ThisNode, 2}

\* The receipt of register_node, as the NodeRegistered events it carries.
Receipts == { << >> } \cup { <<id>> : id \in NodeIds }

\* The registration call that raises ContractError ("none": none does).
RegFailPoints ==
    {"none", "get_stake_balance", "approve_token_spending", "deposit_stake",
     "register_node"}

\* What register_node did: its ledger calls, whether it raised, and the
\* node_id, the content of node_data.json and the number of writes it leaves.
RegResult(cs, raised, id, file, writes) ==
    [calls |-> cs, raised |-> raised, node_id |-> id, node_file |-> file,
     file_writes |-> writes]

\* register_node: the top-up is the whole required stake.
additional_stake_full(required_stake, current_stake) == required_stake

\* register_node: the top-up is twice what is missing.
additional_stake_double(required_stake, current_stake) ==
    2 * (required_stake - current_stake)

\* register_node: additional_stake_needed = required_stake - current_stake
additional_stake_needed(required_stake, current_stake) == required_stake - current_stake

\* register_node: the node id is taken from the compute rating.
NodeRegistered_rating(receipt) == compute_rating

\* register_node: logs[0]['args']['nodeId'] of the processed receipt.
NodeRegistered(receipt) == receipt[1]

\* register_node: the ContractError is logged and kept.
reraise_swallowed(cs) == RegResult(cs, FALSE, node_id, node_file, file_writes)

\* register_node: `except ContractError: ... raise`.
reraise(cs) == RegResult(cs, TRUE, node_id, node_file, file_writes)

\* register_node: the body of its try.  s is what get_stake_balance returns,
\* receipt what register_node returns, saved whether _save_node_data can
\* write the file.  A receipt without the event makes logs[0] raise, and a
\* failed write raises too: neither is a ContractError, both leave the method.
register_try(s, fail_at, receipt, saved) ==
    LET required_stake == to_wei(compute_rating)
        needed == additional_stake_needed(required_stake, s)
        balance == Call("get_stake_balance", << >>, fail_at # "get_stake_balance",
                        IF fail_at # "get_stake_balance" THEN s ELSE NoRet)
        approve == Call("approve_token_spending", <<NodeEscrow, needed>>,
                        fail_at # "approve_token_spending", NoRet)
        deposit == Call("deposit_stake", <<needed>>, fail_at # "deposit_stake", NoRet)
        register == Call("register_node", <<compute_rating>>, fail_at # "register_node",
                         IF fail_at # "register_node" THEN receipt ELSE << >>)
        funded == <<balance, approve, deposit>>
        before == IF s < required_stake THEN funded ELSE <<balance>>
        all == Append(before, register)
    IN  IF ~balance.ok THEN reraise(<<balance>>)
        ELSE IF s < required_stake /\ ~approve.ok THEN reraise(<<balance, approve>>)
        ELSE IF s < required_stake /\ ~deposit.ok THEN reraise(funded)
        ELSE IF ~register.ok THEN reraise(all)
        ELSE IF receipt = << >> THEN RegResult(all, TRUE, node_id, node_file, file_writes)
        ELSE IF ~saved
        THEN RegResult(all, TRUE, NodeRegistered(receipt), node_file, file_writes)
        ELSE RegResult(all, FALSE, NodeRegistered(receipt), NodeRegistered(receipt),
                       file_writes + 1)

\* register_node without its `if self.node_id is not None: return`.
register_node_unguarded(s, fail_at, receipt, saved) ==
    register_try(s, fail_at, receipt, saved)

\* LuminoNode.register_node
register_node(s, fail_at, receipt, saved) ==
    IF node_id # NoId
    THEN RegResult(<< >>, FALSE, node_id, node_file, file_writes)
    ELSE register_try(s, fail_at, receipt, saved)

\* __main__: node.register_node(compute_rating), then node.run() when it returned.
RegisterNode ==
    /\ pc = "main"
    /\ \E s \in Stakes, fail_at \in RegFailPoints, receipt \in Receipts, saved \in BOOLEAN :
          LET r == register_node(s, fail_at, receipt, saved)
          IN  /\ calls' = r.calls
              /\ node_id' = r.node_id
              /\ node_file' = r.node_file
              /\ file_writes' = r.file_writes
              /\ pc' = IF r.raised THEN "reg_raised" ELSE "run"
    /\ UNCHANGED <<now, test_mode, pipeline_zen_dir, current_secret, current_commitment,
                   is_leader, last_phase, can_begin, epochs_processed, handler, dtime,
                   dcount, secret_epoch, first_dispute, jobs, compute_rating,
                   pipeline_env, account, restarts, logvars, execvars>>

\* The environment's PIPELINE_ZEN_DIR: not set, set to the empty string, set
\* to a directory.
PipelineEnvs == {"unset", "", "dir"}

\* initialize_lumino_node: os.getenv('PIPELINE_ZEN_DIR', '.')
getenv_pipeline_zen_dir(env) == IF env = "unset" THEN "." ELSE env

\* __init__: `if config.pipeline_zen_dir:` sets self.pipeline_zen_dir to a
\* Path; an empty string (and None) leaves it None.
init_pipeline_zen_dir(configured) == configured # ""

\* The test modes a node is started with from __main__.
MainTestModes == { << >>, <<1,1,1,1,1,1,1>> }

\* The ledger times at which the process is started: any phase of the
\* ledger's second epoch.
MainStart == NumPhases..(2 * NumPhases - 1)

\* The process after initialize_lumino_node(): __init__ has loaded node_id
\* from node_data.json when the file holds one.
InitMain ==
    /\ now \in MainStart
    /\ pc = "main"
    /\ test_mode \in MainTestModes
    /\ pipeline_env \in PipelineEnvs
    /\ LedgerOff
    /\ pipeline_zen_dir = init_pipeline_zen_dir(getenv_pipeline_zen_dir(pipeline_env))
    /\ node_file \in {NoId} \cup NodeIds
    /\ node_id = node_file
    /\ file_writes = 0
    /\ compute_rating \in Ratings
    /\ current_secret = NoSecret
    /\ current_commitment = NoSecret
    /\ is_leader = FALSE
    /\ last_phase = NoPhase
    /\ can_begin = FALSE
    /\ epochs_processed = 0
    /\ calls = << >>
    /\ handler = NoPhase
    /\ dtime = -1
    /\ dcount = 0
    /\ secret_epoch = -1
    /\ commit_epoch = -1
    /\ first_dispute = -1
    /\ jobs = << >>
    /\ LogOff
    /\ NoExecution

NextMain ==
    \/ RegisterNode
    \/ Next

SpecMain == InitMain /\ [][NextMain]_vars

---------------------------------------------------------------------------
(* Registration over restarts of the process: __main__ is run again after
   register_node raised or the process was killed, against a ledger that
   keeps the node's stake and registration. *)

\* The number of restarts followed.
MaxRestarts == 2

\* No crash during register_node.
NoCrash == -1

\* The amount of the deposit_stake call the ledger accepted among cs (0: none).
deposited(cs) ==
    IF \E i \in DOMAIN cs : cs[i].op = "deposit_stake" /\ cs[i].ok
    THEN (CHOOSE c \in { cs[i] : i \in DOMAIN cs } : c.op = "deposit_stake").args[1]
    ELSE 0

\* The ledger after the calls cs of one register_node: an accepted
\* deposit_stake adds to the stake, an accepted register_node registers.
ledger_after(l, cs) ==
    LET made == { i \in DOMAIN cs : cs[i].op = "register_node" }
        ok == { i \in made : cs[i].ok }
    IN  [stake |-> l.stake + deposited(cs),
         initial |-> l.initial,
         accepted |-> l.accepted + Cardinality(ok),
         repeated |-> l.repeated + (IF l.accepted > 0 THEN Cardinality(made) ELSE 0)]

\* register_node cut short by the death of the process after k of its calls
\* have returned: nothing is assigned or written after them.
killed_after(r, k) ==
    RegResult(SubSeq(r.calls, 1, k), TRUE, node_id, node_file, file_writes)

\* __main__: node.register_node(compute_rating) against the ledger; the
\* process may be killed after any of the calls that returned (after the
\* last one: before node_data.json is written).
RegisterAttempt ==
    /\ pc = "main"
    /\ \E fail_at \in RegFailPoints, receipt \in Receipts, saved \in BOOLEAN,
          k \in {NoCrash} \cup 0..4 :
          LET whole == register_node(account.stake, fail_at, receipt, saved)
              r == IF k = NoCrash THEN whole ELSE killed_after(whole, k)
          IN  /\ k # NoCrash =>
                    /\ k <= Len(whole.calls)
                    /\ \A i \in 1..k : whole.calls[i].ok
                    /\ node_id = NoId
              /\ calls' = r.calls
              /\ node_id' = r.node_id
              /\ node_file' = r.node_file
              /\ file_writes' = r.file_writes
              /\ account' = ledger_after(account, r.calls)
              /\ pc' = IF k # NoCrash THEN "crashed"
                       ELSE IF r.raised THEN "reg_raised" ELSE "run"
    /\ UNCHANGED <<now, test_mode, pipeline_zen_dir, current_secret, current_commitment,
                   is_leader, last_phase, can_begin, epochs_processed, handler, dtime,
                   dcount, secret_epoch, first_dispute, jobs, compute_rating,
                   pipeline_env, restarts, logvars, execvars>>

\* The process is started again: __init__ loads node_id from node_data.json.
Restart ==
    /\ pc \in {"reg_raised", "crashed", "run"}
    /\ restarts < MaxRestarts
    /\ restarts' = restarts + 1
    /\ pc' = "main"
    /\ node_id' = node_file
    /\ calls' = << >>
    /\ UNCHANGED <<now, test_mode, pipeline_zen_dir, current_secret, current_commitment,
                   is_leader, last_phase, can_begin, epochs_processed, handler, dtime,
                   dcount, secret_epoch, first_dispute, jobs, node_file, file_writes,
                   compute_rating, pipeline_env, account, logvars, execvars>>

\* A node that was never registered is started from __main__, with any stake
\* on the ledger.
InitRestart ==
    /\ now = 0
    /\ pc = "main"
    /\ test_mode = << >>
    /\ pipeline_env = "unset"
    /\ pipeline_zen_dir = init_pipeline_zen_dir(getenv_pipeline_zen_dir(pipeline_env))
    /\ node_file = NoId
    /\ node_id = node_file
    /\ file_writes = 0
    /\ compute_rating \in Ratings
    /\ account \in { Account(s) : s \in Stakes }
    /\ restarts = 0
    /\ current_secret = NoSecret
    /\ current_commitment = NoSecret
    /\ is_leader = FALSE
    /\ last_phase = NoPhase
    /\ can_begin = FALSE
    /\ epochs_processed = 0
    /\ calls = << >>
    /\ handler = NoPhase
    /\ dtime = -1
    /\ dcount = 0
    /\ secret_epoch = -1
    /\ commit_epoch = -1
    /\ first_dispute = -1
    /\ jobs = << >>
    /\ LogOff
    /\ NoExecution

NextRestart ==
    \/ RegisterAttempt
    \/ Restart

SpecRestart == InitRestart /\ [][NextRestart]_vars

---------------------------------------------------------------------------
(* One run of the node in simulation mode with TEST_MODE "1111111", one
   ASSIGNED job and a ledger whose calls all return, with the call log kept.
   Every phase lasts longer than a poll and a handler take, so the node polls
   each phase at least once before the ledger leaves it. *)

\* TEST_MODE of the single-epoch run.
EpochTestMode == <<1,1,1,1,1,1,1>>

\* The job list get_jobs_by_node returns in that run.
EpochJobs == << [id |-> 1, status |-> ASSIGNED, args |-> "json"] >>

InitEpoch ==
    /\ now \in 0..(NumPhases - 1)
    /\ pc = "run"
    /\ test_mode = EpochTestMode
    /\ pipeline_zen_dir = FALSE
    /\ node_id \in NodeIds
    /\ current_secret = NoSecret
    /\ current_commitment = NoSecret
    /\ is_leader = FALSE
    /\ last_phase = NoPhase
    /\ can_begin = FALSE
    /\ epochs_processed = 0
    /\ calls = << >>
    /\ handler = NoPhase
    /\ dtime = -1
    /\ dcount = 0
    /\ secret_epoch = -1
    /\ commit_epoch = -1
    /\ first_dispute = -1
    /\ jobs = << >>
    /\ node_file = node_id
    /\ file_writes = 0
    /\ compute_rating = DefaultRating
    /\ pipeline_env = NoEnv
    /\ LedgerOff
    /\ tracing = TRUE
    /\ log = << >>
    /\ NoExecution

\* The ledger leaves a phase the node has polled.
EpochTick ==
    /\ last_phase = Phase(now)
    /\ Tick

\* One iteration of the loop in which every ledger call returns and the
\* CONFIRM handler is given the one ASSIGNED job.
EpochPoll ==
    /\ \/ PollIdle
       \/ PollCommit
       \/ PollReveal
       \/ PollElect
       \/ PollExecute
       \/ PollConfirm
       \/ PollDispute
    /\ \A i \in DOMAIN calls' : calls'[i].ok
    /\ pc' # "raised"
    /\ (handler' = CONFIRM => jobs' = EpochJobs)

NextEpoch ==
    \/ EpochTick
    \/ EpochPoll

SpecEpoch == InitEpoch /\ [][NextEpoch]_vars

---------------------------------------------------------------------------
(* process_assigned_jobs on its own: one CONFIRM handler over a job list of
   up to MaxJobs jobs, in simulation and in real-execution mode. *)

InitJobs ==
    /\ jobs \in JobLists(MaxJobs)
    /\ pipeline_zen_dir \in BOOLEAN
    /\ pc = "confirm"
    /\ now = CONFIRM
    /\ test_mode = << >>
    /\ node_id = ThisNode
    /\ current_secret = NoSecret
    /\ current_commitment = NoSecret
    /\ is_leader = FALSE
    /\ last_phase = EXECUTE
    /\ can_begin = TRUE
    /\ epochs_processed = 0
    /\ calls = << >>
    /\ handler = NoPhase
    /\ dtime = -1
    /\ dcount = 0
    /\ secret_epoch = -1
    /\ commit_epoch = -1
    /\ first_dispute = -1
    /\ node_file = ThisNode
    /\ file_writes = 0
    /\ compute_rating = DefaultRating
    /\ pipeline_env = NoEnv
    /\ LedgerOff
    /\ LogOff
    /\ NoExecution

\* The handler runs: get_jobs_by_node raises, or returns `jobs` and the loop
\* runs over it.  pc tells whether the handler returned or raised.
ConfirmJobs ==
    /\ pc = "confirm"
    /\ \E jobs_ok \in BOOLEAN, loop \in job_loop(pipeline_zen_dir, jobs, 1) :
          LET r == process_assigned_jobs(jobs_ok, loop)
          IN  /\ calls' = r.calls
              /\ pc' = IF r.raised THEN "confirm_raised" ELSE "confirm_returned"
    /\ handler' = CONFIRM
    /\ UNCHANGED <<now, test_mode, pipeline_zen_dir, node_id, current_secret,
                   current_commitment, is_leader, last_phase, can_begin,
                   epochs_processed, dtime, dcount, secret_epoch, first_dispute, jobs,
                   mainvars, logvars, execvars>>

NextJobs == ConfirmJobs

SpecJobs == InitJobs /\ [][NextJobs]_vars

---------------------------------------------------------------------------
(* One ASSIGNED job in real-execution mode, step by step: the per-job try of
   process_assigned_jobs with _execute_job, and next to it the runner
   subprocess, which writes .token-count and .finished into the result
   directory and exits, in any order and at any moment relative to the node's
   polls.  pc is the node's position:
     "confirm_job"  before self.sdk.confirm_job(job_id)
     "start"        at the top of _execute_job
     "poll"         at the test of `while process.poll() is None`
     "wait"         in process.communicate()
     "returned"     _execute_job has returned `success`
     "done"         the loop body is over
     "escaped"      the fail_job of the except clause raised *)

\* What the runner can leave in .token-count.
TokenContents == {"malformed", "int"}

\* Process exit codes.
ExitCodes == {0, 1}

\* The outcomes of the ledger calls after _execute_job returned.
FinishOutcomes ==
    [fail_at : {"none", "complete_job", "process_job_payment", "fail_job"},
     handler_ok : BOOLEAN]

\* The completion check that ignores the marker.
completed_always == TRUE

\* The completion check by exit code.
completed_by_exit_code == returncode = 0

\* _execute_job: `finish_file.exists()` after process.communicate().
completed == finish_file

\* process_assigned_jobs: the per-job except clause, after the calls cs of the
\* try ended in a raise.
job_except(job, cs, handler_ok) ==
    [calls |-> Append(cs, FailCall(job.id, "Processing error", handler_ok)),
     escaped |-> ~handler_ok]

\* process_assigned_jobs: `if success: ... else: ...` and the except clause.
job_finish(job, succeeded, o) ==
    LET complete == Call("complete_job", <<job.id>>, ~Raises(o, "complete_job"), NoRet)
        pay == Call("process_job_payment", <<job.id>>, ~Raises(o, "process_job_payment"), NoRet)
        fail == FailCall(job.id, "Job execution failed", ~Raises(o, "fail_job"))
        body == IF succeeded
                THEN IF complete.ok THEN <<complete, pay>> ELSE <<complete>>
                ELSE <<fail>>
    IN  IF body[Len(body)].ok
        THEN [calls |-> body, escaped |-> FALSE]
        ELSE job_except(job, body, o.handler_ok)

\* The variables the steps of one job leave alone.
ExecFrame ==
    UNCHANGED <<now, test_mode, pipeline_zen_dir, node_id, current_secret,
                current_commitment, is_leader, last_phase, can_begin, epochs_processed,
                handler, dtime, dcount, secret_epoch, first_dispute, jobs,
                mainvars, logvars>>

\* self.sdk.confirm_job(job_id)
ExecConfirm ==
    /\ pc = "confirm_job"
    /\ \E ok \in BOOLEAN, handler_ok \in BOOLEAN :
          LET confirm == Call("confirm_job", <<jobs[1].id>>, ok, NoRet)
              ex == job_except(jobs[1], <<confirm>>, handler_ok)
          IN  IF ok
              THEN calls' = Append(calls, confirm) /\ pc' = "start"
              ELSE /\ calls' = calls \o ex.calls
                   /\ pc' = IF ex.escaped THEN "escaped" ELSE "done"
    /\ ExecFrame
    /\ UNCHANGED execvars

\* job["base_model_name"]: the four models of the GPU table, and any other.
BaseModels ==
    {"llm_llama3_2_1b", "llm_llama3_2_3b", "llm_llama3_1_8b", "llm_llama3_1_70b",
     "llm_dummy"}

\* args_dict["use_lora"]: JSON true, JSON false, no such key, or a non-empty
\* JSON string (true in a Python condition, whatever it spells).
UseLoraValues == {"true", "false", "absent", "string"}

\* Python truth of a use_lora value that is present.
Truthy(v) == v \in {"true", "string"}

\* The result of the GPU selection when args_dict["use_lora"] raises KeyError.
KeyError == -1

\* The GPU selection with 4 GPUs for every llm_llama3_1_70b job.
select_num_gpus_flat(base_model_name, use_lora) ==
    IF base_model_name = "llm_llama3_1_8b"
    THEN IF use_lora = "absent" THEN KeyError
         ELSE IF ~Truthy(use_lora) THEN 4 ELSE 1
    ELSE IF base_model_name = "llm_llama3_1_70b"
    THEN IF use_lora = "absent" THEN KeyError ELSE 4
    ELSE 1

\* _execute_job: "Determine number of GPUs based on model name".  The key
\* use_lora is looked up for the 8b and the 70b model only.
select_num_gpus(base_model_name, use_lora) ==
    IF base_model_name = "llm_llama3_1_8b"
    THEN IF use_lora = "absent" THEN KeyError
         ELSE IF ~Truthy(use_lora) THEN 4 ELSE 1
    ELSE IF base_model_name = "llm_llama3_1_70b"
    THEN IF use_lora = "absent" THEN KeyError
         ELSE IF ~Truthy(use_lora) THEN 8 ELSE 4
    ELSE 1

\* _execute_job: the error logged when the job cannot be started, "" when
\* the process is started: the JSONDecodeError branch, then `except
\* Exception` for the KeyError of the GPU selection and for anything raised
\* between chdir and Popen.
start_error(job, spawn_ok) ==
    IF job.args = "not_json" THEN "Invalid JSON in job args"
    ELSE IF select_num_gpus(job.base_model_name, job.use_lora) = KeyError
    THEN "Error executing job: 'use_lora'"
    ELSE IF ~spawn_ok THEN "Error executing job"
    ELSE ""

\* _execute_job up to Popen: json.loads, the GPU selection, chdir, building
\* the command, mkdir, Popen (spawn_ok: none of these raises once the GPUs
\* are selected).  Any exception ends in `return False`; the record of the
\* execution carries the error that was logged.
ExecStart ==
    /\ pc = "start"
    /\ \E spawn_ok \in BOOLEAN :
          LET gpus == select_num_gpus(jobs[1].base_model_name, jobs[1].use_lora)
              err == start_error(jobs[1], spawn_ok)
          IN  /\ IF err # ""
                 THEN /\ success' = "false"
                      /\ pc' = "returned"
                      /\ process' = process
                      /\ num_gpus' = num_gpus
                 ELSE /\ success' = success
                      /\ pc' = "poll"
                      /\ process' = "running"
                      /\ num_gpus' = gpus
              /\ calls' = Append(calls, [Executed(jobs[1]) EXCEPT !.reason = err])
    /\ ExecFrame
    /\ UNCHANGED <<returncode, token_count_file, finish_file, runner>>

\* _execute_job: the warning "Failed to read token count" of the except
\* clause for ValueError and IOError, kept in the record of the iteration.
ReadFailed == Call("warning_failed_to_read_token_count", << >>, TRUE, NoRet)

\* A poll loop that goes on to its sleep after a report.
after_report_continue(rpc_ok) == IF rpc_ok THEN "poll" ELSE "returned"

\* _execute_job: where control goes after set_token_count_for_job: to the
\* `break` when it returned, to `except Exception` (return False) when it
\* raised.
after_report(rpc_ok) == IF rpc_ok THEN "wait" ELSE "returned"

\* _execute_job: one test of the while condition and, when the process is
\* alive, one pass of the loop body.  With .token-count absent the pass
\* sleeps and comes back here.  With the file present it reads it, reports
\* an integer (a ContractError leaves through `except Exception`), logs a
\* malformed content, and breaks in both cases.
ExecPoll ==
    /\ pc = "poll"
    /\ IF process = "exited"
       THEN pc' = "wait" /\ UNCHANGED <<calls, success>>
       ELSE IF token_count_file = "absent"
       THEN pc' = "poll" /\ UNCHANGED <<calls, success>>
       ELSE IF token_count_file = "malformed"
       THEN /\ calls' = Append(calls, ReadFailed)
            /\ pc' = "wait"
            /\ success' = success
       ELSE \E rpc_ok \in BOOLEAN :
               /\ calls' = Append(calls, Call("set_token_count_for_job",
                                              <<jobs[1].id, RunnerTokenCount>>, rpc_ok, NoRet))
               /\ pc' = after_report(rpc_ok)
               /\ success' = IF rpc_ok THEN success ELSE "false"
    /\ ExecFrame
    /\ UNCHANGED <<process, returncode, token_count_file, finish_file, runner, num_gpus>>

\* _execute_job: process.communicate() returns once the process has exited;
\* then the completion check and the return.
ExecWait ==
    /\ pc = "wait"
    /\ process = "exited"
    /\ success' = IF completed THEN "true" ELSE "false"
    /\ pc' = "returned"
    /\ ExecFrame
    /\ UNCHANGED <<calls, process, returncode, token_count_file, finish_file, runner,
                   num_gpus>>

\* process_assigned_jobs: the calls after _execute_job returned.
ExecFinish ==
    /\ pc = "returned"
    /\ \E o \in FinishOutcomes :
          LET r == job_finish(jobs[1], success = "true", o)
          IN  /\ calls' = calls \o r.calls
              /\ pc' = IF r.escaped THEN "escaped" ELSE "done"
    /\ ExecFrame
    /\ UNCHANGED execvars

\* The runner writes .token-count: a first write of either content, or an
\* integer over a malformed content.
RunnerWriteTokenCount ==
    /\ process = "running"
    /\ token_count_file # "int"
    /\ \E v \in TokenContents :
          /\ (token_count_file = "malformed" => v = "int")
          /\ token_count_file' = v
          /\ runner' = Append(runner, v)
    /\ ExecFrame
    /\ UNCHANGED <<pc, calls, process, returncode, finish_file, success, num_gpus>>

\* The runner writes the .finished marker.
RunnerWriteFinished ==
    /\ process = "running"
    /\ ~finish_file
    /\ finish_file' = TRUE
    /\ runner' = Append(runner, "finished")
    /\ ExecFrame
    /\ UNCHANGED <<pc, calls, process, returncode, token_count_file, success, num_gpus>>

\* The runner process exits.
RunnerExit ==
    /\ process = "running"
    /\ process' = "exited"
    /\ returncode' \in ExitCodes
    /\ runner' = Append(runner, "exit")
    /\ ExecFrame
    /\ UNCHANGED <<pc, calls, token_count_file, finish_file, success, num_gpus>>

\* The ASSIGNED jobs of one execution: any model; args that do not parse, or
\* that parse to a dict with any use_lora value.
ExecJobs ==
    { j \in [id : {1}, status : {ASSIGNED}, args : ArgsKinds,
             base_model_name : BaseModels, use_lora : UseLoraValues] :
        j.args = "not_json" => j.use_lora = "absent" }

\* The CONFIRM handler has read a list of one ASSIGNED job and enters its loop.
InitExec ==
    /\ jobs \in { <<j>> : j \in ExecJobs }
    /\ pipeline_zen_dir = TRUE
    /\ pc = "confirm_job"
    /\ now = CONFIRM
    /\ test_mode = << >>
    /\ node_id = ThisNode
    /\ current_secret = NoSecret
    /\ current_commitment = NoSecret
    /\ is_leader = FALSE
    /\ last_phase = EXECUTE
    /\ can_begin = TRUE
    /\ epochs_processed = 0
    /\ calls = <<Call("get_jobs_by_node", <<ThisNode>>, TRUE, NoRet)>>
    /\ handler = CONFIRM
    /\ dtime = -1
    /\ dcount = 0
    /\ secret_epoch = -1
    /\ commit_epoch = -1
    /\ first_dispute = -1
    /\ node_file = ThisNode
    /\ file_writes = 0
    /\ compute_rating = DefaultRating
    /\ pipeline_env = NoEnv
    /\ LedgerOff
    /\ LogOff
    /\ NoExecution

NextExec ==
    \/ ExecConfirm
    \/ ExecStart
    \/ ExecPoll
    \/ ExecWait
    \/ ExecFinish
    \/ RunnerWriteTokenCount
    \/ RunnerWriteFinished
    \/ RunnerExit

SpecExec == InitExec /\ [][NextExec]_vars

---------------------------------------------------------------------------
(* The CONFIRM handler epoch after epoch against a ledger that keeps the
   status of the node's jobs, with the process killed and started again. *)

\* Job statuses after ASSIGNED, as the ledger numbers them.
CONFIRMED == 2
COMPLETE == 3
FAILED == 4

\* The status the ledger gives a job for an accepted call.
status_of(op) ==
    IF op = "confirm_job" THEN CONFIRMED
    ELSE IF op = "complete_job" THEN COMPLETE
    ELSE FAILED

\* The job on the ledger after the calls cs: its status follows the last
\* confirm_job, complete_job or fail_job the ledger accepted for it.
job_after(job, cs) ==
    LET mine == SelectSeq(cs, LAMBDA c :
                    /\ c.op \in {"confirm_job", "complete_job", "fail_job"}
                    /\ c.args = <<job.id>>
                    /\ c.ok)
    IN  IF mine = << >>
        THEN job
        ELSE [job EXCEPT !.status = status_of(mine[Len(mine)].op)]

\* The CONFIRM phase of one epoch: process_assigned_jobs runs over the jobs
\* the ledger holds for the node, and the ledger records the accepted
\* calls.  The process may be killed after k of the handler's calls (while
\* a job executes, for one); otherwise run() goes on to the next epoch,
\* also when the handler raised (no test mode).
SettleConfirm ==
    /\ pc = "confirm"
    /\ \E jobs_ok \in BOOLEAN, loop \in job_loop(pipeline_zen_dir, jobs, 1) :
          LET r == process_assigned_jobs(jobs_ok, loop)
          IN  \E k \in {NoCrash} \cup 1..(Len(r.calls) - 1) :
                 LET cs == IF k = NoCrash THEN r.calls ELSE SubSeq(r.calls, 1, k)
                 IN  /\ k # NoCrash => restarts < MaxRestarts /\ \A i \in 1..k : r.calls[i].ok
                     /\ calls' = cs
                     /\ jobs' = [i \in DOMAIN jobs |-> job_after(jobs[i], cs)]
                     /\ pc' = IF k = NoCrash THEN "confirm" ELSE "crashed"
    /\ handler' = CONFIRM
    /\ UNCHANGED <<now, test_mode, pipeline_zen_dir, node_id, current_secret,
                   current_commitment, is_leader, last_phase, can_begin,
                   epochs_processed, dtime, dcount, secret_epoch, first_dispute,
                   mainvars, logvars, execvars>>

\* The process is started again and reaches the next CONFIRM phase.
SettleRestart ==
    /\ pc = "crashed"
    /\ pc' = "confirm"
    /\ restarts' = restarts + 1
    /\ calls' = << >>
    /\ handler' = NoPhase
    /\ UNCHANGED <<now, test_mode, pipeline_zen_dir, node_id, current_secret,
                   current_commitment, is_leader, last_phase, can_begin,
                   epochs_processed, dtime, dcount, secret_epoch, first_dispute, jobs,
                   node_file, file_writes, compute_rating, pipeline_env, account,
                   logvars, execvars>>

\* The node has begun and the ledger holds ASSIGNED jobs for it.
InitSettle ==
    /\ jobs \in { js \in JobLists(MaxJobsRun) :
                     Len(js) >= 1 /\ \A i \in DOMAIN js : js[i].status = ASSIGNED }
    /\ pipeline_zen_dir \in BOOLEAN
    /\ pc = "confirm"
    /\ now = CONFIRM
    /\ test_mode = << >>
    /\ node_id = ThisNode
    /\ current_secret = NoSecret
    /\ current_commitment = NoSecret
    /\ is_leader = FALSE
    /\ last_phase = EXECUTE
    /\ can_begin = TRUE
    /\ epochs_processed = 0
    /\ calls = << >>
    /\ handler = NoPhase
    /\ dtime = -1
    /\ dcount = 0
    /\ secret_epoch = -1
    /\ commit_epoch = -1
    /\ first_dispute = -1
    /\ node_file = ThisNode
    /\ file_writes = 0
    /\ compute_rating = DefaultRating
    /\ pipeline_env = NoEnv
    /\ LedgerOff
    /\ LogOff
    /\ NoExecution

NextSettle ==
    \/ SettleConfirm
    \/ SettleRestart

\* run() polls for ever and reaches every CONFIRM phase; a process that was
\* killed is started again.
SpecSettle ==
    /\ InitSettle
    /\ [][NextSettle]_vars
    /\ WF_vars(SettleConfirm)
    /\ WF_vars(SettleRestart)

---------------------------------------------------------------------------
(* The claims.  Under Spec, `calls`, `handler` and `jobs` describe the loop
   iteration that just ended; the next step replaces or drops them. *)

IsOp(c, op) == c.op = op

Ops(cs) == { cs[i].op : i \in DOMAIN cs }

\* C1: for every ledger epoch and every phase p, the handler of p is
\* dispatched at most once during that epoch.  The ledger clock never goes
\* back, so two dispatches for one (epoch, phase) have no dispatch for another
\* one between them, and dcount counts the dispatches for the latest
\* (epoch, phase) that had one.
C1_AtMostOncePerEpoch ==
    /\ dcount <= 1
    /\ (handler # NoPhase => dtime # -1 /\ handler = Phase(dtime) /\ dcount >= 1)

\* C1 witness: a handler ran for this phase of this epoch, and a later poll
\* of the same phase dispatched nothing.
C1_Witness ==
    /\ dcount = 1
    /\ dtime = now
    /\ handler = NoPhase
    /\ last_phase = Phase(now)
    /\ pc = "run"

\* C2: can_begin stays false until a poll observes DISPUTE; while it is false
\* no handler has run and no protocol call was made; and no handler is ever
\* dispatched for the first observed DISPUTE.
C2_NoActionBeforeFirstDispute ==
    /\ (can_begin => first_dispute # -1)
    /\ (~can_begin =>
          /\ calls = << >>
          /\ handler = NoPhase
          /\ dtime = -1
          /\ current_secret = NoSecret
          /\ epochs_processed = 0)
    /\ (first_dispute # -1 => dtime # first_dispute)

\* C2 witness: the first DISPUTE was observed, can_begin is set, the ledger is
\* still in that phase and nothing was dispatched.
C2_Witness ==
    /\ can_begin
    /\ first_dispute = now
    /\ last_phase = DISPUTE
    /\ dtime = -1
    /\ calls = << >>

\* C3: the secret passed to reveal_secret in epoch e was drawn by the COMMIT
\* handler of the same epoch e.
C3_RevealSameEpoch ==
    \A i \in DOMAIN calls :
        IsOp(calls[i], "reveal_secret") => secret_epoch = Epoch(dtime)

\* C4: after the REVEAL handler has called reveal_secret (whether the call
\* returned or raised), current_secret is absent.
C4_SecretClearedAfterReveal ==
    (\E i \in DOMAIN calls : IsOp(calls[i], "reveal_secret")) => current_secret = NoSecret

\* C5: the reveal_secret RPC is made only when current_secret is present (and
\* with that secret); a REVEAL handler that runs with no secret held makes no
\* ledger call.
C5_RevealOnlyWithSecret ==
    /\ \A i \in DOMAIN calls :
          IsOp(calls[i], "reveal_secret") =>
             /\ calls[i].args[2] # NoSecret
             /\ calls[i].args[2] = current_secret
             /\ handler = REVEAL
    /\ (handler = REVEAL /\ current_secret = NoSecret => calls = << >>)
    /\ (handler = REVEAL /\ current_secret # NoSecret => Len(calls) = 1)

\* C5 witness: the REVEAL handler ran with no secret held (the COMMIT of the
\* epoch was missed).
C5_Witness ==
    /\ handler = REVEAL
    /\ current_secret = NoSecret
    /\ calls = << >>

\* C8: in every EXECUTE handler start_assignment_round is invoked iff the
\* value get_current_leader returned equals node_id, and is_leader is set to
\* that comparison; no other handler invokes it.
C8_LeaderDutiesIffLeader ==
    /\ (handler = EXECUTE =>
          /\ Len(calls) >= 1
          /\ IsOp(calls[1], "get_current_leader")
          /\ IF calls[1].ok
             THEN /\ is_leader = (calls[1].ret = node_id)
                  /\ ("start_assignment_round" \in Ops(calls)) = (calls[1].ret = node_id)
             ELSE "start_assignment_round" \notin Ops(calls))
    /\ (handler # EXECUTE => "start_assignment_round" \notin Ops(calls))

\* C8 witness: an EXECUTE handler in which the ledger named this node leader
\* and the assignment round was started.
C8_Witness ==
    /\ handler = EXECUTE
    /\ Len(calls) = 2
    /\ calls[1].ret = node_id
    /\ IsOp(calls[2], "start_assignment_round")
    /\ is_leader

\* The entries of the call log that change nothing on the ledger: the two
\* reads and the execution marker.
ReadOps == {"get_current_leader", "get_jobs_by_node", "execute"}

\* C9: in test mode a phase whose flag character (index 0..5 for
\* COMMIT..DISPUTE) is '0' performs no ledger action: the handler of such a
\* phase makes no mutating call (with "1110111" no start_assignment_round,
\* with "1111011" no confirm_job).
C9_DisabledPhaseNoAction ==
    (TestModeOn /\ handler # NoPhase /\ CharAt(test_mode, handler) = 0) =>
        Ops(calls) \subseteq ReadOps

\* C10: in test mode with the digit k >= 1 at index 6, run() exits after
\* exactly k completed DISPUTE handlers: never more than k complete, and it
\* has exited iff k have completed.
C10_ExitAfterKDisputes ==
    (TestModeOn /\ CharAt(test_mode, 6) >= 1) =>
        /\ epochs_processed <= CharAt(test_mode, 6)
        /\ (pc = "exited" => epochs_processed = CharAt(test_mode, 6))

---------------------------------------------------------------------------
(* Claims about process_assigned_jobs, under SpecJobs. *)

\* The calls made for the job with this id, in order (the execution marker
\* included).
JobCalls(id) ==
    SelectSeq(calls, LAMBDA c : c.op # "get_jobs_by_node" /\ c.args # << >> /\ c.args[1] = id)

JobOps(id) == [i \in DOMAIN JobCalls(id) |-> JobCalls(id)[i].op]

Before(ops, a, b) ==
    \E i, j \in DOMAIN ops : i < j /\ ops[i] = a /\ ops[j] = b

HandlerRan == pc \in {"confirm_returned", "confirm_raised"} /\ Len(calls) >= 1 /\ calls[1].ok

\* C6: for every job returned with status ASSIGNED, confirm_job is invoked,
\* then the job is executed, then either complete_job and process_job_payment
\* are both invoked or fail_job is invoked, in that order.
C6_FullSequencePerAssignedJob ==
    HandlerRan =>
        \A k \in DOMAIN jobs :
            jobs[k].status = ASSIGNED =>
                LET ops == JobOps(jobs[k].id)
                IN  /\ Len(ops) >= 3
                    /\ ops[1] = "confirm_job"
                    /\ ops[2] = "execute"
                    /\ \/ /\ Before(ops, "execute", "complete_job")
                          /\ Before(ops, "complete_job", "process_job_payment")
                       \/ Before(ops, "execute", "fail_job")

\* C7: a failure while processing one job never escapes that job: every
\* ASSIGNED job of the list is still processed (confirm_job is invoked for it)
\* and the handler does not raise.
C7_FailureStaysInJob ==
    HandlerRan =>
        /\ pc = "confirm_returned"
        /\ \A k \in DOMAIN jobs :
              jobs[k].status = ASSIGNED => Len(JobOps(jobs[k].id)) >= 1

---------------------------------------------------------------------------
(* Claims about registration, under SpecMain. *)

\* The ledger calls of register_node.
RegOps == {"get_stake_balance", "approve_token_spending", "deposit_stake", "register_node"}

CountOp(cs, op) == Cardinality({ i \in DOMAIN cs : cs[i].op = op })

\* C11: a node started with a node_data.json that holds a node_id never
\* attempts registration: register_node() makes no ledger call, leaves
\* node_id and the file as they are, and returns.
C11_NoReRegistration ==
    [][ (pc = "main" /\ node_file # NoId) =>
           /\ calls' = << >>
           /\ node_id' = node_id
           /\ node_id' = node_file
           /\ node_file' = node_file
           /\ file_writes' = file_writes
           /\ pc' = "run" ]_vars

\* C11 witness: register_node has returned for a node whose file held an id;
\* the loop is entered and nothing was called or written.
C11_Witness ==
    /\ pc = "run"
    /\ last_phase = NoPhase
    /\ node_file = 2
    /\ node_id = 2
    /\ file_writes = 0
    /\ calls = << >>

\* C12: node_data.json is written at most once, only by register_node after
\* the register_node RPC (and every call before it) returned, and with the
\* nodeId of the NodeRegistered event of that receipt; once run() is entered
\* nothing writes the file or changes node_id.
C12_FileWrittenOnce ==
    /\ [](file_writes <= 1 /\ (file_writes = 1 => node_file = node_id /\ node_id # NoId))
    /\ [][ file_writes' # file_writes =>
              /\ pc = "main"
              /\ file_writes = 0
              /\ file_writes' = 1
              /\ calls' # << >>
              /\ \A i \in DOMAIN calls' : calls'[i].ok
              /\ calls'[Len(calls')].op = "register_node"
              /\ calls'[Len(calls')].ret # << >>
              /\ node_file' = calls'[Len(calls')].ret[1]
              /\ node_id' = node_file' ]_vars
    /\ [][ pc # "main" =>
              /\ node_file' = node_file
              /\ node_id' = node_id
              /\ file_writes' = file_writes ]_vars

\* C12 witness: the file was written once with the id the ledger assigned,
\* and a phase handler has run since.
C12_Witness ==
    /\ file_writes = 1
    /\ node_file = 2
    /\ node_id = 2
    /\ pc = "run"
    /\ handler = COMMIT

\* C13: if a ledger call of registration raises a contract error, the error
\* leaves register_node, node_id stays unset, node_data.json is not written,
\* and the main loop is never entered (the process ends there).
C13_RegistrationErrorEscapes ==
    /\ []((\E i \in DOMAIN calls : calls[i].op \in RegOps /\ ~calls[i].ok) =>
            /\ pc = "reg_raised"
            /\ node_id = NoId
            /\ node_file = NoId
            /\ file_writes = 0
            /\ last_phase = NoPhase
            /\ handler = NoPhase)
    /\ [][pc # "reg_raised"]_vars

\* C13 witness: deposit_stake raised after the approval went through.
C13_Witness ==
    /\ pc = "reg_raised"
    /\ Len(calls) = 3
    /\ calls[3].op = "deposit_stake"
    /\ ~calls[3].ok
    /\ node_id = NoId

\* C14: with rating r and current stake s, if s < r ether the node calls
\* approve_token_spending and deposit_stake once each with r ether - s, in
\* that order, before register_node(r); if s >= r ether it calls neither (the
\* stake is left as it is); when no call raises, register_node(r) is called
\* exactly once, last.  A call that raises ends the sequence.
C14_StakeTopUp ==
    (calls # << >> /\ calls[1].op = "get_stake_balance" /\ calls[1].ok) =>
        LET s == calls[1].ret
            required == compute_rating * EtherUnits
            n == Len(calls)
        IN  /\ \A i \in 1..(n - 1) : calls[i].ok
            /\ CountOp(calls, "register_node") <= 1
            /\ IF s < required
               THEN /\ n \in 2..4
                    /\ calls[2].op = "approve_token_spending"
                    /\ calls[2].args = <<NodeEscrow, required - s>>
                    /\ (n >= 3 => calls[3].op = "deposit_stake" /\ calls[3].args = <<required - s>>)
                    /\ (n = 4 => calls[4].op = "register_node" /\ calls[4].args = <<compute_rating>>)
                    /\ (calls[n].ok => n = 4)
               ELSE /\ n = 2
                    /\ calls[2].op = "register_node"
                    /\ calls[2].args = <<compute_rating>>

\* C14 witness: rating 10 with a stake of 0.4 ether: 9.6 ether approved and
\* deposited, then register_node(10) returned.
C14_Witness ==
    /\ pc = "run"
    /\ compute_rating = DefaultRating
    /\ Len(calls) = 4
    /\ calls[1].ret = 40
    /\ calls[3].op = "deposit_stake"
    /\ calls[3].args = <<to_wei(DefaultRating) - 40>>
    /\ calls[4].op = "register_node"
    /\ calls[4].ok

---------------------------------------------------------------------------
(* Claims about the single-epoch run, under SpecEpoch. *)

\* The ledger calls logged so far, as operation names (the execution marker
\* is no ledger call).
LogOps ==
    LET ledger == SelectSeq(log, LAMBDA c : c.op # "execute")
    IN  [i \in DOMAIN ledger |-> ledger[i].op]

IsPrefix(a, b) ==
    /\ Len(a) <= Len(b)
    /\ \A i \in DOMAIN a : a[i] = b[i]

\* The ledger calls of one full epoch, in order, for a node that is (lead) or
\* is not the leader; get_jobs_by_node is the read that hands the CONFIRM
\* handler its job.
EpochOps(lead) ==
    <<"submit_commitment", "reveal_secret", "elect_leader", "get_current_leader">>
    \o (IF lead THEN <<"start_assignment_round">> ELSE << >>)
    \o <<"get_jobs_by_node", "confirm_job", "set_token_count_for_job", "complete_job",
         "process_job_payment", "process_incentives">>

\* C15: in simulation mode with TEST_MODE "1111111", one ASSIGNED job jid and
\* no RPC failure, the ledger calls occur in the order submit_commitment,
\* reveal_secret, elect_leader, get_current_leader, start_assignment_round
\* (iff leader), confirm_job(jid), set_token_count_for_job(jid, 600000),
\* complete_job(jid), process_job_payment(jid), process_incentives: the log is
\* always a prefix of that sequence, the job calls carry jid and 600000, and
\* run() has exited exactly when the sequence is complete, in the DISPUTE phase.
C15_EpochCallOrder ==
    /\ \E lead \in BOOLEAN : IsPrefix(LogOps, EpochOps(lead))
    /\ (Len(LogOps) >= 4 => IsPrefix(LogOps, EpochOps(is_leader)))
    /\ \A i \in DOMAIN log :
          /\ log[i].op \in {"confirm_job", "complete_job", "process_job_payment"}
                => log[i].args = <<EpochJobs[1].id>>
          /\ log[i].op = "set_token_count_for_job"
                => log[i].args = <<EpochJobs[1].id, SimTokenCount>>
          /\ log[i].op = "get_current_leader" => is_leader = (log[i].ret = node_id)
    /\ (pc = "exited") = (\E lead \in BOOLEAN : LogOps = EpochOps(lead))
    /\ (pc = "exited" => handler = DISPUTE /\ Phase(now) = DISPUTE /\ epochs_processed = 1)
    /\ pc \in {"run", "exited"}

\* C15 witness: the leader's epoch is complete and run() has exited.
C15_Witness ==
    /\ pc = "exited"
    /\ is_leader
    /\ LogOps = EpochOps(TRUE)
    /\ Phase(now) = DISPUTE

---------------------------------------------------------------------------
(* More claims about process_assigned_jobs, under SpecJobs. *)

\* The reasons the node can give fail_job that contain "Invalid JSON".  (It
\* passes "Job execution failed" and "Processing error: ..." only; the words
\* "Invalid JSON" go to the log, at line 252.)
InvalidJsonReasons == {"Invalid JSON in job args"}

\* C18: in real-execution mode a job whose args are not valid JSON is failed
\* via fail_job with a reason containing "Invalid JSON", and is never
\* completed or paid.
C18_InvalidJsonReason ==
    (HandlerRan /\ pipeline_zen_dir) =>
        \A k \in DOMAIN jobs :
            LET cs == JobCalls(jobs[k].id)
            IN  (/\ jobs[k].status = ASSIGNED
                 /\ jobs[k].args = "not_json"
                 /\ \E i \in DOMAIN cs : cs[i].op = "execute") =>
                    /\ \E i \in DOMAIN cs :
                          cs[i].op = "fail_job" /\ cs[i].reason \in InvalidJsonReasons
                    /\ \A i \in DOMAIN cs :
                          cs[i].op \notin {"complete_job", "process_job_payment"}

\* C19: the CONFIRM handler acts only on jobs whose status is ASSIGNED: for
\* a returned job in any other status it makes no ledger call and starts no
\* execution, every call it makes is for an ASSIGNED job of the list, and with
\* an empty list it returns after the read with no error.
C19_OnlyAssignedJobs ==
    HandlerRan =>
        /\ \A k \in DOMAIN jobs :
              jobs[k].status # ASSIGNED => JobCalls(jobs[k].id) = << >>
        /\ \A i \in 2..Len(calls) :
              \E k \in DOMAIN jobs :
                  jobs[k].id = calls[i].args[1] /\ jobs[k].status = ASSIGNED
        /\ (jobs = << >> => Len(calls) = 1 /\ pc = "confirm_returned")

\* C19 witness: a COMPLETE job is skipped and the ASSIGNED job after it is
\* confirmed, executed, completed and paid.
C19_Witness ==
    /\ pc = "confirm_returned"
    /\ Len(jobs) = 2
    /\ jobs[1].status = 3
    /\ jobs[2].status = ASSIGNED
    /\ JobCalls(1) = << >>
    /\ Len(JobCalls(2)) >= 4
    /\ calls[Len(calls)].op = "process_job_payment"

---------------------------------------------------------------------------
(* Claims about one real execution, under SpecExec. *)

\* The loop body for the job is over.
JobOver == pc \in {"done", "escaped"}

\* set_token_count_for_job raised during the poll.
TokenRpcFailed ==
    \E i \in DOMAIN calls : calls[i].op = "set_token_count_for_job" /\ ~calls[i].ok

\* C16: when the runner process has exited and .finished is absent from the
\* result directory, the node calls fail_job for the job and calls neither
\* complete_job nor process_job_payment for it.
C16_NoFinishedMeansFailJob ==
    (JobOver /\ process = "exited" /\ ~finish_file) =>
        /\ "fail_job" \in Ops(JobCalls(jobs[1].id))
        /\ "complete_job" \notin Ops(calls)
        /\ "process_job_payment" \notin Ops(calls)

\* C16 witness: the runner exited with code 0 and no marker; the job was
\* failed with "Job execution failed".
C16_Witness ==
    /\ pc = "done"
    /\ process = "exited"
    /\ returncode = 0
    /\ ~finish_file
    /\ calls[Len(calls)].op = "fail_job"
    /\ calls[Len(calls)].reason = "Job execution failed"
    /\ calls[Len(calls)].ok

\* C17: if the runner writes a valid integer to .token-count, then writes
\* .finished, then exits, and every ledger call returns, the node calls
\* set_token_count_for_job(jid, n) exactly once, then complete_job(jid), then
\* process_job_payment(jid), whatever the interleaving of the runner's steps
\* with the node's polls.
C17_TokenCountReportedOnce ==
    (/\ pc = "done"
     /\ runner = <<"int", "finished", "exit">>
     /\ \A i \in DOMAIN calls : calls[i].ok) =>
        /\ JobOps(jobs[1].id) = <<"confirm_job", "execute", "set_token_count_for_job",
                                  "complete_job", "process_job_payment">>
        /\ \A i \in DOMAIN calls :
              calls[i].op = "set_token_count_for_job" =>
                  calls[i].args = <<jobs[1].id, RunnerTokenCount>>

C21_NumGpusTable ==
    process # "none" =>
        LET m == jobs[1].base_model_name
            l == jobs[1].use_lora
        IN  /\ (m \in {"llm_llama3_2_1b", "llm_llama3_2_3b"} => num_gpus = 1)
            /\ (m = "llm_llama3_1_8b" /\ l = "true" => num_gpus = 1)
            /\ (m = "llm_llama3_1_8b" /\ l = "false" => num_gpus = 4)
            /\ (m = "llm_llama3_1_70b" /\ l = "true" => num_gpus = 4)
            /\ (m = "llm_llama3_1_70b" /\ l = "false" => num_gpus = 8)

\* C21 witness: a full fine-tune of the 70b model is started on 8 GPUs.
C21_Witness ==
    /\ process = "running"
    /\ jobs[1].base_model_name = "llm_llama3_1_70b"
    /\ jobs[1].use_lora = "false"
    /\ num_gpus = 8

\* C22: a restarted node process submits no per-phase action for the epoch
\* that was in progress when it started: it holds no secret and makes no
\* mutation before it has observed DISPUTE, so every handler it runs belongs
\* to a later epoch than the one it started in.
C22_NoActionInStartEpoch ==
    /\ (Epoch(now) = 0 =>
          /\ calls = << >>
          /\ handler = NoPhase
          /\ dtime = -1
          /\ current_secret = NoSecret
          /\ current_commitment = NoSecret)
    /\ (dtime # -1 =>
          /\ Epoch(dtime) >= 1
          /\ first_dispute # -1
          /\ first_dispute < dtime)

\* C22 witness: the first handler the node runs is the COMMIT of the epoch
\* after the one it started in, whose DISPUTE it observed without acting.
C22_Witness ==
    /\ first_dispute = DISPUTE
    /\ dtime = NumPhases
    /\ handler = COMMIT
    /\ calls # << >>
    /\ secret_epoch = 1

\* The secret and the commitment are held together, as one pair.
OnePair ==
    /\ (current_secret = NoSecret <=> current_commitment = NoSecret)
    /\ (current_secret # NoSecret =>
          /\ current_secret \in Secrets
          /\ current_commitment = Keccak(current_secret))

\* C23: at the start of every COMMIT handler, current_secret is either absent
\* or was drawn in an earlier epoch (whose REVEAL phase has passed); the
\* handler replaces it with the secret it draws, so one (secret, commitment)
\* pair is held, at most.
C23_SecretAtCommitStart ==
    /\ []OnePair
    /\ [][handler' = COMMIT =>
            /\ (current_secret = NoSecret
                  \/ (secret_epoch < Epoch(now)
                        /\ secret_epoch * NumPhases + REVEAL < now))
            /\ secret_epoch' = Epoch(now)
            /\ OnePair']_vars

\* C23 witness: a COMMIT handler starts while the secret of an earlier epoch
\* is still held.
C23_Witness ==
    /\ pc = "run"
    /\ dispatching
    /\ Phase(now) = COMMIT
    /\ current_secret # NoSecret
    /\ secret_epoch < Epoch(now)

\* set_token_count_for_job was called and returned.
TokenReported ==
    \E i \in DOMAIN calls : calls[i].op = "set_token_count_for_job" /\ calls[i].ok

C25_MalformedRetried ==
    (/\ JobOver
     /\ ReadFailed.op \in Ops(calls)
     /\ Before(runner, "malformed", "int")
     /\ Before(runner, "int", "exit")) =>
        \E i \in DOMAIN calls :
           /\ calls[i].op = "set_token_count_for_job"
           /\ calls[i].args = <<jobs[1].id, RunnerTokenCount>>

\* The handler of the latest iteration raised: its last ledger call failed.
HandlerFailed == handler # NoPhase /\ calls # << >> /\ ~calls[Len(calls)].ok

\* C26: outside test mode, an exception raised by a phase handler is caught
\* inside the loop: run() does not terminate, the failed action is not
\* retried while the ledger stays in the same phase, and the handler of the
\* next observed phase still runs.
C26_HandlerErrorCaught ==
    /\ [](~TestModeOn /\ HandlerFailed => pc = "run" /\ can_begin /\ dcount = 1)
    /\ [][(~TestModeOn /\ HandlerFailed /\ now' = now) => handler' = NoPhase]_vars
    /\ [][(~TestModeOn /\ can_begin /\ last_phase' # last_phase) =>
             handler' = last_phase' /\ last_phase' = Phase(now)]_vars

\* C26 witness: outside test mode the REVEAL handler failed, and the loop
\* goes on.
C26_Witness ==
    /\ ~TestModeOn
    /\ handler = REVEAL
    /\ HandlerFailed
    /\ pc = "run"
    /\ can_begin

\* C27: in test mode, an exception raised by any phase handler is re-raised
\* and terminates run() with that exception; no further phase handler runs
\* afterwards.
C27_TestModeReraise ==
    (TestModeOn /\ HandlerFailed) => pc = "raised"

\* C28: outside test mode, an exception raised anywhere in the main-loop body
\* (process_events, the status reads, get_epoch_state) never terminates
\* run(): the top-level catch logs, pauses and resumes polling, in every loop
\* iteration, including the very first one, before any epoch state has been
\* obtained.
C28_TopLevelCatchResumes ==
    ~TestModeOn => pc \notin {"raised", "raised_other", "exited"}

Dispatch == dtime' # dtime \/ dcount' # dcount

\* C30: the node's handler invocations are totally ordered and follow the
\* phase order: every dispatch is for the phase the ledger is in, at a later
\* ledger time than the dispatch before it, so that within one epoch a
\* handler for phase p is never dispatched after a handler for a phase q > p,
\* and the handlers of epoch e + 1 come after those of epoch e.
C30_HandlersInPhaseOrder ==
    [][Dispatch =>
         /\ handler' = dtime' % NumPhases
         /\ dtime' = now
         /\ (dtime # -1 =>
               /\ dtime' > dtime
               /\ Epoch(dtime') >= Epoch(dtime)
               /\ (Epoch(dtime') = Epoch(dtime) => handler' > dtime % NumPhases))]_vars

\* C30 witness: the REVEAL handler has run, in the epoch in which the COMMIT
\* handler ran before it.
C30_Witness ==
    /\ handler = REVEAL
    /\ calls # << >>
    /\ secret_epoch = Epoch(dtime)
    /\ dtime = now

\* The record of the start of the execution.
StartRecord == SelectSeq(calls, LAMBDA c : c.op = "execute")

\* C31: a job for base model llm_llama3_1_8b or llm_llama3_1_70b whose args
\* JSON has no use_lora key is launched with use_lora defaulting to "true"
\* (and the LoRA GPU count, 1 resp. 4); the missing key does not cause the job
\* to be failed.
C31_MissingUseLoraDefaults ==
    (/\ jobs[1].base_model_name \in {"llm_llama3_1_8b", "llm_llama3_1_70b"}
     /\ jobs[1].args = "json"
     /\ jobs[1].use_lora = "absent"
     /\ StartRecord # << >>
     /\ StartRecord[1].reason # "Error executing job") =>
        /\ process # "none"
        /\ num_gpus = IF jobs[1].base_model_name = "llm_llama3_1_8b" THEN 1 ELSE 4
        /\ StartRecord[1].reason = ""

\* C35: _execute_job returns (with success or failure) only after the spawned
\* runner process has exited; on no path, including an exception from
\* set_token_count_for_job during polling, does it return, and let the job
\* be failed on the ledger, while the subprocess is still running.
C35_ReturnsAfterExit ==
    /\ (success # "none" /\ process # "none" => process = "exited")
    /\ ("fail_job" \in Ops(calls) => process # "running")

\* C33: for any job, fail_job is never invoked after complete_job has
\* succeeded for it (e.g. when process_job_payment raises afterwards); a job
\* receives complete_job or fail_job from the node, never both.
C33_NoFailAfterComplete ==
    \A id \in 1..MaxJobs :
        LET cs == JobCalls(id)
        IN  \A i, j \in DOMAIN cs :
               (i < j /\ cs[i].op = "complete_job" /\ cs[i].ok) => cs[j].op # "fail_job"

\* The calls that belong to the execution and the settlement of a job.
AfterConfirmOps ==
    {"execute", "set_token_count_for_job", "complete_job", "process_job_payment"}

\* C36: job execution (real subprocess or simulation) is started for a job
\* only after confirm_job succeeded for that job in the same CONFIRM handler;
\* no set_token_count_for_job, complete_job or process_job_payment call is
\* made for a job whose confirm_job raised.
C36_ExecutionAfterConfirm ==
    \A id \in 1..MaxJobs :
        LET cs == JobCalls(id)
        IN  /\ \A j \in DOMAIN cs :
                  cs[j].op \in AfterConfirmOps =>
                      \E i \in 1..(j - 1) : cs[i].op = "confirm_job" /\ cs[i].ok
            /\ \A i \in DOMAIN cs :
                  (cs[i].op = "confirm_job" /\ ~cs[i].ok) =>
                      \A j \in DOMAIN cs : cs[j].op \notin AfterConfirmOps

\* C36 witness: confirm_job raised for job 1, which got fail_job only, and
\* the handler went on to confirm and execute job 2.
C36_Witness ==
    /\ HandlerRan
    /\ JobOps(1) = <<"confirm_job", "fail_job">>
    /\ ~JobCalls(1)[1].ok
    /\ Len(JobCalls(2)) >= 2
    /\ JobCalls(2)[1].ok
    /\ JobOps(2)[2] = "execute"

\* C37: the ledger accepts at most one register_node call from a node across
\* process restarts; if the process crashes after the ledger accepted
\* register_node but before node_data.json was written, the restarted node
\* does not call register_node a second time.
C37_RegisterOnceAcrossRestarts ==
    /\ account.accepted <= 1
    /\ account.repeated = 0

\* What the stake required for the rating exceeds the node's first stake by.
Shortfall ==
    IF account.initial < to_wei(compute_rating)
    THEN to_wei(compute_rating) - account.initial
    ELSE 0

\* C40: across any sequence of registration attempts, each possibly failing
\* at approve_token_spending, deposit_stake or register_node and followed by a
\* restart and retry, the total amount the node deposits never exceeds
\* compute_rating*10^18 minus its initial stake (a retry after a successful
\* deposit does not deposit again).
C40_DepositBounded ==
    /\ account.stake - account.initial <= Shortfall
    /\ (pc # "main" /\ deposited(calls) > 0 =>
           deposited(calls) = account.stake - account.initial)

\* C40 witness: a first attempt deposited the shortfall and then failed at
\* register_node; the retry after the restart reads the stake, deposits
\* nothing and registers.
C40_Witness ==
    /\ restarts >= 1
    /\ pc = "run"
    /\ account.stake - account.initial = Shortfall
    /\ Shortfall > 0
    /\ Len(calls) = 2
    /\ calls[1].op = "get_stake_balance"
    /\ calls[2].op = "register_node"
    /\ account.accepted = 1

\* C32: outside test mode, reveal_secret is called in an epoch only if
\* submit_commitment was accepted by the ledger in that same epoch; when the
\* submit_commitment RPC raises, no secret remains held and the following
\* REVEAL handler makes no RPC.
C32_RevealOnlyAfterAcceptedCommit ==
    ~TestModeOn =>
        /\ ("reveal_secret" \in Ops(calls) => commit_epoch = Epoch(dtime))
        /\ (handler = COMMIT /\ HandlerFailed => current_secret = NoSecret)
        /\ (handler = REVEAL /\ commit_epoch # Epoch(dtime) => calls = << >>)

\* C34: once can_begin is true, whenever a poll observes a phase p of an epoch
\* in which the handler of p has not yet run, that handler is dispatched,
\* also when the previous observation was the same phase p of an earlier
\* epoch.  (The epoch of the DISPUTE that opened the gate is left out; a
\* poll that observes the phase is one whose get_epoch_state returns, and it
\* dispatches iff state_changed.)
C34_UnrunHandlerDispatched ==
    (/\ pc = "run"
     /\ can_begin
     /\ Epoch(now) > Epoch(first_dispute)
     /\ dtime # now) =>
        state_changed

\* C39: in every reachable state current_secret and current_commitment are
\* either both absent or both present, and when present current_commitment
\* is the hash of current_secret; they change only in the COMMIT handler.
C39_PairChangesOnlyInCommit ==
    /\ [](/\ (current_secret = NoSecret) = (current_commitment = NoSecret)
          /\ (current_secret # NoSecret => current_commitment = Keccak(current_secret)))
    /\ [][(current_secret' # current_secret \/ current_commitment' # current_commitment) =>
             handler' = COMMIT /\ Phase(now) = COMMIT]_vars

\* C39 witness: a handler other than COMMIT has run while a pair was held,
\* and the pair is the one the COMMIT handler of that epoch left.
C39_Witness ==
    /\ handler = REVEAL
    /\ "reveal_secret" \in Ops(calls)
    /\ current_secret # NoSecret
    /\ current_commitment = Keccak(current_secret)
    /\ secret_epoch = Epoch(now)

\* C38: every job the node has confirmed on the ledger is eventually settled
\* by the node with complete_job or fail_job, also when the process crashes
\* during execution and is restarted (the restarted node sees the job in
\* status CONFIRMED).
C38_ConfirmedEventuallySettled ==
    \A i \in 1..MaxJobsRun :
        (i \in DOMAIN jobs /\ jobs[i].status = CONFIRMED)
            ~> (i \in DOMAIN jobs /\ jobs[i].status \in {COMPLETE, FAILED})

====
